---- MODULE Spec2Model ----
(***************************************************************************)
(* Model of the Kubernetes remediation gateway                             *)
(* (src/servers/kubernetes-remediation/kubernetes_remediation.py).         *)
(*                                                                         *)
(* A Python str is a sequence of one-character strings.  A Python list of  *)
(* arguments is a sequence of such tokens.  A decoded JSON element that is *)
(* not a str is a token whose first element is a type tag ("<int>", ...),  *)
(* which no character equals.                                              *)
(***************************************************************************)
EXTENDS Integers, Sequences, FiniteSets, TLC

VARIABLES
    ALLOWED_COMMANDS,   \* module global, set of tokens
    DANGEROUS_FLAGS,    \* module global, set of tokens
    ALLOWED_IMAGES,     \* module global, set of tokens
    TIMEOUT,            \* module global, seconds
    tool,               \* the tool of the invocation in progress, or "none"
    input,              \* the caller's arguments of that invocation
    pc,                 \* position of the invocation
    kubectl_args,       \* the vector handed to subprocess.run
    procs,              \* child processes spawned by the invocation
    result,             \* the dictionary returned to the caller
    raised,             \* exception that left the tool function, or "none"
    snapshot,           \* the dictionary get_config returned to the caller
    inv,                \* the invocations in flight when dispatch is concurrent
    profiles_config,    \* aws-multi-account: the accounts file
    refresh_thread,     \* aws-multi-account: _refresh_thread, 0 for None
    threads,            \* aws-multi-account: the Thread objects created
    setup_calls,        \* aws-multi-account: the calls of setup_aws_profiles
    credentials_file,   \* aws-multi-account: the credentials file
    sts_serial,         \* aws-multi-account: the next session STS hands out
    refresh_log,        \* aws-multi-account: what the last refresh logged
    db_pool,            \* mariadb: the module global, 0 for None
    pools,              \* mariadb: the pools created
    db_calls,           \* mariadb: the calls of get_db_connection
    cleanup_pc          \* mariadb: where cleanup is

awsVars  == <<profiles_config, refresh_thread, threads, setup_calls,
              credentials_file, sts_serial, refresh_log>>
poolVars == <<db_pool, pools, db_calls, cleanup_pc>>

\* the state of the other parts of the repository
elsewhere == <<inv, awsVars, poolVars>>

vars == <<ALLOWED_COMMANDS, DANGEROUS_FLAGS, ALLOWED_IMAGES, TIMEOUT, tool,
          input, pc, kubectl_args, procs, result, raised, snapshot, elsewhere>>

policy == <<ALLOWED_COMMANDS, DANGEROUS_FLAGS, ALLOWED_IMAGES, TIMEOUT>>

----------------------------------------------------------------------------
(* Bounds                                                                  *)

\* longest argument vector a caller sends
MaxArgs == 3

----------------------------------------------------------------------------
(* Words                                                                   *)

Kubectl     == <<"k","u","b","e","c","t","l">>
Get         == <<"g","e","t">>
Delete      == <<"d","e","l","e","t","e">>
Exec        == <<"e","x","e","c">>
Run         == <<"r","u","n">>
Pods        == <<"p","o","d","s">>
DashN       == <<"-","n">>
DashDash    == <<"-","-">>
DashRm      == <<"-","-","r","m">>
DashI       == <<"-","i">>
FlagAs      == <<"-","-","a","s">>
FlagAsUid   == <<"-","-","a","s","-","u","i","d">>
Overrides   == <<"-","-","o","v","e","r","r","i","d","e","s">>
ImageEq     == <<"-","-","i","m","a","g","e","=">>
RestartNever == <<"-","-","r","e","s","t","a","r","t","=","N","e","v","e","r">>
Busybox     == <<"b","u","s","y","b","o","x">>
Nginx       == <<"n","g","i","n","x">>
EmptyStr    == <<>>

\* the backtick character (the one character a string literal cannot hold)
Backtick    == "<backtick>"

\* type tags of decoded JSON elements that are not str
TypeTags == {"<int>", "<null>", "<bool>", "<list>", "<dict>", "<none>"}
PyInt(digits) == <<"<int>">> \o digits
PyNull  == <<"<null>">>
PyBool  == <<"<bool>">>
PyList  == <<"<list>">>
PyDict  == <<"<dict>">>
None    == <<"<none>">>

IsStr(x)    == x = <<>> \/ x[1] \notin TypeTags
Hashable(x) == IsStr(x) \/ x[1] \in {"<int>", "<null>", "<bool>", "<none>"}

----------------------------------------------------------------------------
(* Configuration                                                           *)

SHELL_CHARS == {";", "|", "&", "$", Backtick, "\\", "'", "\"", "\n", "\r"}

\* KUBECTL_TIMEOUT default
DefaultTimeout == 60

\* Configurations the module globals are loaded with.  The shipped defaults
\* are scaled down to two subcommands and one flag; an environment variable
\* set to the empty string gives the one-element set holding the empty str.
Policies ==
    { [cmds |-> {Get, Delete}, flags |-> {FlagAs},   images |-> {}],
      [cmds |-> {Get},         flags |-> {EmptyStr}, images |-> {Busybox, Nginx}],
      [cmds |-> {Get, Exec},   flags |-> {},         images |-> {Busybox}] }

----------------------------------------------------------------------------
(* Exceptions and results                                                  *)

MsgNoArgs        == "No arguments provided"
MsgNoCommand     == "No command provided after 'kubectl'"
MsgNotAllowed    == "Command not allowed"
MsgFlag          == "Flag is not permitted"
MsgChars         == "Invalid characters in argument"
MsgExpectedArray == "Expected array"
MsgInvalidJSON   == "Invalid JSON in args string"
MsgTimedOut      == "Command timed out"
MsgSpawn         == "spawn failed"
MsgType          == "TypeError"

Raise(exc, msg) == [exc |-> exc, msg |-> msg, val |-> <<>>]
Return(v)       == [exc |-> "none", msg |-> "", val |-> v]

----------------------------------------------------------------------------
(* json.loads, on the part of the grammar the callers' texts use: arrays,  *)
(* objects, strings with the escapes \" \\ \/ \n \r \t, integers and the   *)
(* literals null, true, false, with whitespace between the items.          *)

Digits     == {"0","1","2","3","4","5","6","7","8","9"}
Whitespace == {" ", "\t", "\n", "\r"}
At(s, i)   == IF i >= 1 /\ i <= Len(s) THEN s[i] ELSE "<eof>"

JFail      == [ok |-> FALSE, val |-> <<>>, pos |-> 0]
JOk(v, p)  == [ok |-> TRUE,  val |-> v,    pos |-> p]

RECURSIVE SkipWs(_, _)
SkipWs(s, i) == IF At(s, i) \in Whitespace THEN SkipWs(s, i + 1) ELSE i

\* the escape sequences: the character after the backslash, decoded
Unescape(c) ==
    CASE c = "\"" -> "\""
      [] c = "\\" -> "\\"
      [] c = "/"  -> "/"
      [] c = "n"  -> "\n"
      [] c = "r"  -> "\r"
      [] c = "t"  -> "\t"
      [] OTHER    -> "<bad>"

\* s[i] is the character after the opening quote; strict mode: a raw
\* control character inside a string is an error
RECURSIVE ScanString(_, _, _)
ScanString(s, i, acc) ==
    LET c == At(s, i) IN
    IF c = "<eof>" \/ c \in {"\n", "\r", "\t"} THEN JFail
    ELSE IF c = "\"" THEN JOk(acc, i + 1)
    ELSE IF c = "\\"
         THEN LET d == Unescape(At(s, i + 1)) IN
              IF d = "<bad>" THEN JFail
              ELSE ScanString(s, i + 2, Append(acc, d))
    ELSE ScanString(s, i + 1, Append(acc, c))

RECURSIVE ScanDigits(_, _, _)
ScanDigits(s, i, acc) ==
    IF At(s, i) \in Digits THEN ScanDigits(s, i + 1, Append(acc, s[i]))
    ELSE JOk(acc, i)

Literal(s, i, word) ==
    /\ i + Len(word) - 1 <= Len(s)
    /\ SubSeq(s, i, i + Len(word) - 1) = word

RECURSIVE ParseValue(_, _)
RECURSIVE ParseItems(_, _, _)
RECURSIVE ParseMembers(_, _)

\* one JSON value starting at s[i]; an array's val is the sequence of its
\* elements, each as a token; any other value's val is its token
ParseValue(s, i) ==
    LET c == At(s, i) IN
    IF c = "\"" THEN ScanString(s, i + 1, <<>>)
    ELSE IF c \in Digits
         THEN LET d == ScanDigits(s, i, <<>>) IN JOk(PyInt(d.val), d.pos)
    ELSE IF c = "-" /\ At(s, i + 1) \in Digits
         THEN LET d == ScanDigits(s, i + 1, <<"-">>) IN JOk(PyInt(d.val), d.pos)
    ELSE IF Literal(s, i, <<"n","u","l","l">>) THEN JOk(PyNull, i + 4)
    ELSE IF Literal(s, i, <<"t","r","u","e">>) THEN JOk(PyBool, i + 4)
    ELSE IF Literal(s, i, <<"f","a","l","s","e">>) THEN JOk(PyBool, i + 5)
    ELSE IF c = "["
         THEN LET j == SkipWs(s, i + 1) IN
              IF At(s, j) = "]" THEN JOk(<<>>, j + 1)
              ELSE ParseItems(s, j, <<>>)
    ELSE IF c = "{"
         THEN LET j == SkipWs(s, i + 1) IN
              IF At(s, j) = "}" THEN JOk(PyDict, j + 1)
              ELSE ParseMembers(s, j)
    ELSE JFail

\* the tag of the value starting at s[i]
IsArrayAt(s, i) == At(s, i) = "["

\* an element of an array, as a token: a nested array is the token PyList
ParseElement(s, i) ==
    LET v == ParseValue(s, i) IN
    IF v.ok /\ IsArrayAt(s, i) THEN JOk(PyList, v.pos) ELSE v

ParseItems(s, i, acc) ==
    LET e == ParseElement(s, i) IN
    IF ~e.ok THEN JFail
    ELSE LET j == SkipWs(s, e.pos) IN
         IF At(s, j) = "]" THEN JOk(Append(acc, e.val), j + 1)
         ELSE IF At(s, j) = ","
              THEN ParseItems(s, SkipWs(s, j + 1), Append(acc, e.val))
         ELSE JFail

ParseMembers(s, i) ==
    IF At(s, i) # "\"" THEN JFail
    ELSE LET k == ScanString(s, i + 1, <<>>) IN
         IF ~k.ok THEN JFail
         ELSE LET j == SkipWs(s, k.pos) IN
              IF At(s, j) # ":" THEN JFail
              ELSE LET v == ParseElement(s, SkipWs(s, j + 1)) IN
                   IF ~v.ok THEN JFail
                   ELSE LET m == SkipWs(s, v.pos) IN
                        IF At(s, m) = "}" THEN JOk(PyDict, m + 1)
                        ELSE IF At(s, m) = ","
                             THEN ParseMembers(s, SkipWs(s, m + 1))
                        ELSE JFail

\* json.loads(s): [ok, isList, val]; not ok is json.JSONDecodeError
json_loads(s) ==
    LET i == SkipWs(s, 1)
        v == ParseValue(s, i)
    IN  IF ~v.ok THEN [ok |-> FALSE, isList |-> FALSE, val |-> <<>>]
        ELSE IF SkipWs(s, v.pos) # Len(s) + 1
             THEN [ok |-> FALSE, isList |-> FALSE, val |-> <<>>]
        ELSE [ok |-> TRUE, isList |-> IsArrayAt(s, i), val |-> v.val]

----------------------------------------------------------------------------
(* Validation                                                              *)

Min(S) == CHOOSE x \in S : \A y \in S : x <= y

\* fault: the flag is compared without splitting at "="
split_first_whole(arg) == arg

\* arg.split("=")[0]
split_first(arg) ==
    LET eqs == {i \in 1..Len(arg) : arg[i] = "="} IN
    IF eqs = {} THEN arg ELSE SubSeq(arg, 1, Min(eqs) - 1)

\* fault: only the first character of the argument is looked at
has_shell_char_prefix(arg) == arg # <<>> /\ arg[1] \in SHELL_CHARS

\* any(c in arg for c in SHELL_CHARS), arg a str
has_shell_char(arg) == \E i \in 1..Len(arg) : arg[i] \in SHELL_CHARS

\* fault: every leading tool name is dropped
RECURSIVE strip_kubectl_all(_)
strip_kubectl_all(args) ==
    IF args # <<>> /\ args[1] = Kubectl
    THEN strip_kubectl_all(SubSeq(args, 2, Len(args))) ELSE args

\* fault: a leading tool name is kept
strip_kubectl_never(args) == args

\* args[1:] when args[0] == "kubectl"
strip_kubectl(args) ==
    IF args[1] = Kubectl THEN SubSeq(args, 2, Len(args)) ELSE args

\* fault: --overrides is left to the configured blocklist
check_arg_no_overrides(arg) ==
    IF ~IsStr(arg) THEN Raise("AttributeError", MsgType)
    ELSE LET flag == split_first(arg) IN
         IF flag \in DANGEROUS_FLAGS THEN Raise("ValueError", MsgFlag)
         ELSE IF has_shell_char(arg) THEN Raise("ValueError", MsgChars)
         ELSE Return(arg)

\* the checks of one argument of the loop (lines 95-107)
check_arg(arg) ==
    IF ~IsStr(arg) THEN Raise("AttributeError", MsgType)
    ELSE LET flag == split_first(arg) IN
         IF flag \in DANGEROUS_FLAGS THEN Raise("ValueError", MsgFlag)
         ELSE IF flag = Overrides THEN Raise("ValueError", MsgFlag)
         ELSE IF has_shell_char(arg) THEN Raise("ValueError", MsgChars)
         ELSE Return(arg)

\* for arg in args: ..., from the i-th argument on
RECURSIVE check_args_from(_, _)
check_args_from(args, i) ==
    IF i > Len(args) THEN Return(args)
    ELSE LET r == check_arg(args[i]) IN
         IF r.exc # "none" THEN r ELSE check_args_from(args, i + 1)

\* fault: the subcommand is not checked against the allowlist
validate_args_no_allowlist(args0) ==
    IF args0 = <<>> THEN Raise("ValueError", MsgNoArgs)
    ELSE LET args == strip_kubectl(args0) IN
         IF args = <<>> THEN Raise("ValueError", MsgNoCommand)
         ELSE check_args_from(args, 1)

\* fault: the arguments are checked before the subcommand
validate_args_flags_first(args0) ==
    IF args0 = <<>> THEN Raise("ValueError", MsgNoArgs)
    ELSE LET args == strip_kubectl(args0) IN
         IF args = <<>> THEN Raise("ValueError", MsgNoCommand)
         ELSE LET r == check_args_from(args, 1) IN
              IF r.exc # "none" THEN r
              ELSE IF ~Hashable(args[1]) THEN Raise("TypeError", MsgType)
              ELSE IF args[1] \notin ALLOWED_COMMANDS
                   THEN Raise("ValueError", MsgNotAllowed)
              ELSE Return(args)

validate_args(args0) ==
    IF args0 = <<>> THEN Raise("ValueError", MsgNoArgs)
    ELSE LET args == strip_kubectl(args0) IN
         IF args = <<>> THEN Raise("ValueError", MsgNoCommand)
         ELSE LET command == args[1] IN
              IF ~Hashable(command) THEN Raise("TypeError", MsgType)
              ELSE IF command \notin ALLOWED_COMMANDS
                   THEN Raise("ValueError", MsgNotAllowed)
              ELSE check_args_from(args, 1)

\* fault: a decoded value that is no array is wrapped into a one-element list
parse_args_wrap(a) ==
    IF a.isStr
    THEN LET parsed == json_loads(a.text) IN
         IF ~parsed.ok THEN Raise("ValueError", MsgInvalidJSON)
         ELSE IF parsed.isList THEN Return(parsed.val)
         ELSE Return(<<parsed.val>>)
    ELSE Return(a.list)

\* parse_args(args): the caller's value is a str (text) or a list
parse_args(a) ==
    IF a.isStr
    THEN LET parsed == json_loads(a.text) IN
         IF ~parsed.ok THEN Raise("ValueError", MsgInvalidJSON)
         ELSE IF parsed.isList THEN Return(parsed.val)
         ELSE Raise("ValueError", MsgExpectedArray)
    ELSE Return(a.list)

----------------------------------------------------------------------------
(* Validation of the run_image fields                                      *)

Lower == {"a","b","c","d","e","f","g","h","i","j","k","l","m",
          "n","o","p","q","r","s","t","u","v","w","x","y","z"}
Upper == {"A","B","C","D","E","F","G","H","I","J","K","L","M",
          "N","O","P","Q","R","S","T","U","V","W","X","Y","Z"}

\* the characters of the callers' texts for which c.isalnum() holds
Alnum == Lower \cup Upper \cup Digits

\* c.isalnum()
isalnum(c) == c \in Alnum

MsgNameEmpty  == "Pod name cannot be empty"
MsgNameHyphen == "Pod name cannot start with a hyphen"
MsgNameChars  == "Invalid pod name"
MsgNameLong   == "Pod name cannot exceed 253 characters"
MsgNameStart  == "Pod name must start with a lowercase letter or number"
MsgDisabled   == "run_image tool is disabled"
MsgImage      == "Image not allowed"
MsgCmdChars   == "Invalid characters in command argument"
MsgNsChars    == "Invalid characters in namespace"

\* Kubernetes name length limit
MaxNameLen == 253

\* the characters the pattern [a-z0-9] matches
LowerOrDigit == Lower \cup Digits

validate_pod_name(name) ==
    IF name = <<>> THEN Raise("ValueError", MsgNameEmpty)
    ELSE IF name[1] = "-" THEN Raise("ValueError", MsgNameHyphen)
    ELSE IF ~(\A i \in 1..Len(name) : isalnum(name[i]) \/ name[i] = "-")
         THEN Raise("ValueError", MsgNameChars)
    ELSE IF Len(name) > MaxNameLen THEN Raise("ValueError", MsgNameLong)
    ELSE IF name[1] \notin LowerOrDigit
         THEN Raise("ValueError", MsgNameStart)
    ELSE Return(name)

\* fault: membership is tested before the empty allowlist
validate_image_member_first(image) ==
    IF image \notin ALLOWED_IMAGES THEN Raise("ValueError", MsgImage)
    ELSE IF ALLOWED_IMAGES = {} THEN Raise("ValueError", MsgDisabled)
    ELSE Return(image)

\* fault: an empty allowlist allows every image
validate_image_open(image) ==
    IF ALLOWED_IMAGES # {} /\ image \notin ALLOWED_IMAGES
    THEN Raise("ValueError", MsgImage)
    ELSE Return(image)

\* fault: an image is accepted when an allowed image is a prefix of it
validate_image_prefix(image) ==
    IF ALLOWED_IMAGES = {} THEN Raise("ValueError", MsgDisabled)
    ELSE IF ~(\E a \in ALLOWED_IMAGES :
                 Len(a) <= Len(image) /\ SubSeq(image, 1, Len(a)) = a)
         THEN Raise("ValueError", MsgImage)
    ELSE Return(image)

validate_image(image) ==
    IF ALLOWED_IMAGES = {} THEN Raise("ValueError", MsgDisabled)
    ELSE IF image \notin ALLOWED_IMAGES THEN Raise("ValueError", MsgImage)
    ELSE Return(image)

\* "c in arg" for one element of the command: a str is searched for the
\* character; an int, a bool or None is not iterable; a list or a dict is
\* searched for an element equal to the character, and the nested values the
\* callers send hold none
check_command_arg(arg) ==
    IF IsStr(arg)
    THEN IF has_shell_char(arg) THEN Raise("ValueError", MsgCmdChars)
         ELSE Return(arg)
    ELSE IF arg[1] \in {"<list>", "<dict>"} THEN Return(arg)
    ELSE Raise("TypeError", MsgType)

RECURSIVE validate_command_from(_, _)
validate_command_from(command, i) ==
    IF i > Len(command) THEN Return(command)
    ELSE LET r == check_command_arg(command[i]) IN
         IF r.exc # "none" THEN r ELSE validate_command_from(command, i + 1)

validate_command_args(command) == validate_command_from(command, 1)

\* "if command:" -- None, "" and [] are false
command_given(c) ==
    /\ ~c.isNone
    /\ IF c.isStr THEN c.text # <<>> ELSE c.list # <<>>

\* "if namespace:" -- None and "" are false
namespace_given(ns) == ns # None /\ ns # <<>>

\* lines 283-287: parsed_command, None as the empty sequence with given=FALSE
parse_command(c) ==
    IF ~command_given(c) THEN Return(<<>>)
    ELSE LET parsed == IF c.isStr
                       THEN parse_args([isStr |-> TRUE, text |-> c.text, list |-> <<>>])
                       ELSE Return(c.list) IN
         IF parsed.exc # "none" THEN parsed
         ELSE validate_command_args(parsed.val)

\* fault: the command follows the options without the "--" separator
build_run_args_no_separator(in, parsed_command) ==
    LET base == <<Run, in.name, ImageEq \o in.image, RestartNever>>
        ns   == IF namespace_given(in.namespace)
                THEN <<DashN, in.namespace>> ELSE <<>>
        rm   == IF in.rm THEN <<DashRm, DashI>> ELSE <<>>
    IN  base \o ns \o rm \o parsed_command

\* lines 289-304: the vector, once name, image and command have passed
build_run_args(in, parsed_command) ==
    LET base == <<Run, in.name, ImageEq \o in.image, RestartNever>>
        ns   == IF namespace_given(in.namespace)
                THEN <<DashN, in.namespace>> ELSE <<>>
        rm   == IF in.rm THEN <<DashRm, DashI>> ELSE <<>>
        cmd  == IF parsed_command # <<>>
                THEN <<DashDash>> \o parsed_command ELSE <<>>
    IN  base \o ns \o rm \o cmd

\* lines 292-295
check_namespace(ns) ==
    IF namespace_given(ns) /\ has_shell_char(ns)
    THEN Raise("ValueError", MsgNsChars) ELSE Return(ns)

\* lines 278-306 of run_image: everything before subprocess.run
run_image_prepare(in) ==
    LET n == validate_pod_name(in.name) IN
    IF n.exc # "none" THEN n
    ELSE LET im == validate_image(in.image) IN
    IF im.exc # "none" THEN im
    ELSE LET c == parse_command(in.command) IN
    IF c.exc # "none" THEN c
    ELSE LET ns == check_namespace(in.namespace) IN
    IF ns.exc # "none" THEN ns
    ELSE Return(build_run_args(in, c.val))

\* lines 241-243 of kubectl: everything before run_kubectl
kubectl_prepare(in) ==
    LET p == parse_args(in.args) IN
    IF p.exc # "none" THEN p ELSE validate_args(p.val)

----------------------------------------------------------------------------
(* The callers' inputs                                                     *)

\* json.dumps of a list of str, as a caller encodes it
EscapeChar(c) ==
    CASE c = "\"" -> <<"\\", "\"">>
      [] c = "\\" -> <<"\\", "\\">>
      [] c = "\n" -> <<"\\", "n">>
      [] c = "\r" -> <<"\\", "r">>
      [] c = "\t" -> <<"\\", "t">>
      [] OTHER    -> <<c>>

RECURSIVE EscapeFrom(_, _)
EscapeFrom(tok, i) ==
    IF i > Len(tok) THEN <<>> ELSE EscapeChar(tok[i]) \o EscapeFrom(tok, i + 1)

RECURSIVE JoinFrom(_, _)
JoinFrom(v, i) ==
    IF i > Len(v) THEN <<>>
    ELSE (IF i > 1 THEN <<",", " ">> ELSE <<>>)
         \o <<"\"">> \o EscapeFrom(v[i], 1) \o <<"\"">> \o JoinFrom(v, i + 1)

JsonEncode(v) == <<"[">> \o JoinFrom(v, 1) \o <<"]">>

SeqsUpTo(S, n) == UNION {[1..k -> S] : k \in 0..n}
InsertAt(v, i, t) == SubSeq(v, 1, i - 1) \o <<t>> \o SubSeq(v, i, Len(v))

\* the characters a caller may try to smuggle in, the double quote included
MetaChars == {";", "|", "&", "$", Backtick, "\\", "'", "\"", "\n", "\r"}

\* tokens that occur at every position, in every combination
PlainTokens == {Kubectl, Get, Exec, Pods, FlagAs, <<"p",";","q">>}

\* tokens of which a vector holds at most one, at any position
MetaTokens == UNION {{<<c,"a">>, <<"a",c,"b">>, <<"a",c>>} : c \in MetaChars}
FlagTokens ==
    { FlagAs \o <<"=","x">>, FlagAs \o <<"=",";">>, FlagAsUid, <<"-","-","a">>,
      <<"a","=">> \o FlagAs,
      Overrides, Overrides \o <<"=","x">>, Overrides \o <<"=","{","\"","a","\"","}">>,
      Overrides \o <<"x">>,
      <<"=","x">>, <<>>, Delete, DashN,
      <<"{","\"","a","\"",":","1","}">> }
RareTokens == MetaTokens \cup FlagTokens

\* texts that are no JSON, JSON that is no array, arrays whose elements are
\* not all strings
OddTexts ==
    { <<>>,
      <<"g","e","t">>,
      <<"\"","g","e","t","\"">>,
      <<"5">>,
      <<"n","u","l","l">>,
      <<"{","\"","a","\"",":","1","}">>,
      <<"[","\"","g","e","t","\"">>,
      <<"[","\"","g","e","t","\"",",","]">>,
      <<"[","\"","g","e","t","\"","]","x">>,
      <<"[","\"","a","\n","b","\"","]">>,
      <<" ","[","\"","g","e","t","\""," ",",","\"","p","o","d","s","\"","]","\n">>,
      <<"[","1","]">>,
      <<"[","n","u","l","l","]">>,
      <<"[","[","\"","g","e","t","\"","]","]">>,
      <<"[","{","}","]">>,
      <<"[","\"","g","e","t","\"",",","1","]">>,
      <<"[","\"","g","e","t","\"",",","n","u","l","l","]">>,
      <<"[","\"","g","e","t","\"",",","[","\"","a",";","b","\"","]","]">>,
      <<"[","\"","g","e","t","\"",",","t","r","u","e","]">>,
      <<"[","\"","k","u","b","e","c","t","l","\"",",","1","]">>,
      <<"[","\"","e","x","e","c","\"",",","1","]">> }

ListArg(v) == [isStr |-> FALSE, text |-> <<>>, list |-> v]
TextArg(t) == [isStr |-> TRUE,  text |-> t,    list |-> <<>>]

\* longest command a caller gives run_image
MaxCmd == 2

Sh == <<"s","h">>
CmdTokens == {Sh, Exec, FlagAs, <<"a",";","b">>}
Commands == SeqsUpTo(CmdTokens, MaxCmd)
CmdOddTexts ==
    { <<>>, <<"s","h">>, <<"5">>, <<"[","1","]">>, <<"[","n","u","l","l","]">>,
      <<"[","[","\"","a",";","b","\"","]","]">>,
      <<"[","\"","a","\\","\"","b","\"","]">>,
      <<"[","\"","s","h","\"",",","{","}","]">> }

NoCommand == [isNone |-> TRUE, isStr |-> FALSE, text |-> <<>>, list |-> <<>>]
RunCommands ==
    {NoCommand}
    \cup {[isNone |-> FALSE, isStr |-> FALSE, text |-> <<>>, list |-> c] : c \in Commands}
    \cup {[isNone |-> FALSE, isStr |-> TRUE, text |-> JsonEncode(c), list |-> <<>>]
          : c \in Commands}
    \cup {[isNone |-> FALSE, isStr |-> TRUE, text |-> t, list |-> <<>>] : t \in CmdOddTexts}

\* a name of n characters
LongName(n) == [i \in 1..n |-> "a"]

Names ==
    { <<"p","1">>, <<"a","-","b">>, <<"a","B">>, <<>>, <<"-","a">>,
      <<"A","b">>, <<"a","_","b">>, <<"a",";">>,
      LongName(MaxNameLen), LongName(MaxNameLen + 1) }
Images ==
    { Busybox, Nginx, <<"b","u","s","y">>, Busybox \o <<":","1">> }
Namespaces ==
    { None, <<>>, <<"n","s">>, <<"n",";","s">>, <<"n","\"","s">>, FlagAs }

NoArgs == ListArg(<<>>)
NoInput ==
    [args |-> NoArgs, name |-> <<>>, image |-> <<>>, namespace |-> None,
     command |-> NoCommand, rm |-> TRUE]

KubectlInput(a) == [NoInput EXCEPT !.args = a]
RunImageInput(n, im, ns, c, rm) ==
    [args |-> NoArgs, name |-> n, image |-> im, namespace |-> ns,
     command |-> c, rm |-> rm]

\* a vector as the caller sends it: the sequence itself, or its JSON text
AsArg(asText, v) == IF asText THEN TextArg(JsonEncode(v)) ELSE ListArg(v)

----------------------------------------------------------------------------
(* Results                                                                 *)

NoResult ==
    [keys |-> {}, success |-> FALSE, error |-> "", stdout |-> "", stderr |-> "",
     return_code |-> 0]

\* {"success": False, "error": str(e)}
ErrorResult(msg) ==
    [NoResult EXCEPT !.keys = {"success", "error"}, !.error = msg]

\* {"success": False, "error": ..., "stdout": "", "stderr": ""}
ErrorResultWithStreams(msg) ==
    [NoResult EXCEPT !.keys = {"success", "error", "stdout", "stderr"},
                     !.error = msg]

\* fault: the output of a command that failed is dropped
ExitResult_drop(o) ==
    [keys |-> {"success", "stdout", "stderr", "return_code"},
     success |-> (o.rc = 0), error |-> "",
     stdout |-> (IF o.rc = 0 THEN o.out ELSE ""), stderr |-> o.err,
     return_code |-> o.rc]

\* {"success": returncode == 0, "stdout", "stderr", "return_code"}
ExitResult(o) ==
    [keys |-> {"success", "stdout", "stderr", "return_code"},
     success |-> (o.rc = 0), error |-> "", stdout |-> o.out, stderr |-> o.err,
     return_code |-> o.rc]

\* what a child process may end with
ExitOutcomes ==
    { [rc |-> 0, out |-> "out", err |-> ""],
      [rc |-> 1, out |-> "",    err |-> "err"],
      [rc |-> 1, out |-> "out", err |-> "err"] }

----------------------------------------------------------------------------
(* get_config                                                              *)

\* the characters of the configured words, in code point order
CodePoints ==
    <<"-", "0","1","2","3","4","5","6","7","8","9",
      "a","b","c","d","e","f","g","h","i","j","k","l","m",
      "n","o","p","q","r","s","t","u","v","w","x","y","z">>
ord(c) == CHOOSE i \in 1..Len(CodePoints) : CodePoints[i] = c

\* a < b for two str
str_lt(a, b) ==
    LET n    == IF Len(a) < Len(b) THEN Len(a) ELSE Len(b)
        diff == {i \in 1..n : a[i] # b[i]}
    IN  IF diff = {} THEN Len(a) < Len(b)
        ELSE ord(a[Min(diff)]) < ord(b[Min(diff)])

\* sorted(S), S a set of str: a new list
RECURSIVE sorted(_)
sorted(S) ==
    IF S = {} THEN <<>>
    ELSE LET least == CHOOSE x \in S : \A y \in S \ {x} : str_lt(x, y)
         IN  <<least>> \o sorted(S \ {least})

\* no dictionary has been returned
NoSnapshot ==
    [given |-> FALSE, allowed_commands |-> <<>>, dangerous_flags |-> <<>>,
     timeout_seconds |-> 0, allowed_images |-> <<>>, run_image_enabled |-> FALSE,
     shares |-> {}]

ListKeys == {"allowed_commands", "dangerous_flags", "allowed_images"}

\* fault: the dictionary holds the module's own collections
get_config_shared ==
    [given |-> TRUE,
     allowed_commands |-> sorted(ALLOWED_COMMANDS),
     dangerous_flags |-> sorted(DANGEROUS_FLAGS),
     timeout_seconds |-> TIMEOUT,
     allowed_images |-> IF ALLOWED_IMAGES # {} THEN sorted(ALLOWED_IMAGES) ELSE <<>>,
     run_image_enabled |-> (ALLOWED_IMAGES # {}),
     shares |-> ListKeys]

\* the dictionary get_config returns; shares is the set of its lists that
\* are the same object as a module global: sorted() and [] make new lists
get_config_result ==
    [given |-> TRUE,
     allowed_commands |-> sorted(ALLOWED_COMMANDS),
     dangerous_flags |-> sorted(DANGEROUS_FLAGS),
     timeout_seconds |-> TIMEOUT,
     allowed_images |-> IF ALLOWED_IMAGES # {} THEN sorted(ALLOWED_IMAGES) ELSE <<>>,
     run_image_enabled |-> (ALLOWED_IMAGES # {}),
     shares |-> {}]

Range(s) == {s[i] : i \in 1..Len(s)}

\* what a caller does to a list it was given: lst.clear(), lst.append("exec")
ListEdits == {"clear", "append"}
edit_list(lst, e) == IF e = "clear" THEN <<>> ELSE Append(lst, Exec)

\* the module global behind a key of the dictionary
global_of(k) ==
    CASE k = "allowed_commands" -> ALLOWED_COMMANDS
      [] k = "dangerous_flags"  -> DANGEROUS_FLAGS
      [] k = "allowed_images"   -> ALLOWED_IMAGES

\* the global after the caller's edit of the list under key k: changed only
\* when the list is the global itself
global_after(k, key, lst) ==
    IF k = key /\ key \in snapshot.shares THEN Range(lst) ELSE global_of(k)

----------------------------------------------------------------------------
(* The gateway                                                             *)

\* the other servers of the repository are not running
AwsUnused ==
    /\ profiles_config = <<>>
    /\ refresh_thread = 0
    /\ threads = <<>>
    /\ setup_calls = <<>>
    /\ credentials_file = <<>>
    /\ sts_serial = 0
    /\ refresh_log = <<>>

PoolUnused ==
    /\ db_pool = 0
    /\ pools = <<>>
    /\ db_calls = <<>>
    /\ cleanup_pc = "idle"

Init ==
    /\ \E p \in Policies :
          /\ ALLOWED_COMMANDS = p.cmds
          /\ DANGEROUS_FLAGS = p.flags
          /\ ALLOWED_IMAGES = p.images
    /\ TIMEOUT = DefaultTimeout
    /\ tool = "none"
    /\ input = NoInput
    /\ pc = "idle"
    /\ kubectl_args = <<>>
    /\ procs = <<>>
    /\ result = NoResult
    /\ raised = "none"
    /\ snapshot = NoSnapshot
    /\ inv = <<>>
    /\ AwsUnused
    /\ PoolUnused

\* the outcome of the part of a tool before the child process is started:
\* r is what that part returned or raised, caught is the set of exception
\* types the tool's except clauses turn into a result
Prepared(r, caught) ==
    IF r.exc = "none"
    THEN /\ kubectl_args' = r.val
         /\ pc' = "exec"
         /\ UNCHANGED <<result, raised>>
    ELSE IF r.exc \in caught
    THEN /\ result' = ErrorResult(r.msg)
         /\ pc' = "done"
         /\ UNCHANGED <<kubectl_args, raised>>
    ELSE /\ raised' = r.exc
         /\ pc' = "done"
         /\ UNCHANGED <<kubectl_args, result>>

\* kubectl(args), up to the call of run_kubectl; "except ValueError" only
KubectlCall(in) ==
    /\ pc = "idle"
    /\ tool' = "kubectl"
    /\ input' = in
    /\ Prepared(kubectl_prepare(in), {"ValueError"})
    /\ UNCHANGED <<policy, snapshot, elsewhere, procs>>

\* run_image(...), up to subprocess.run; "except ValueError", "except Exception"
RunImageCall(in) ==
    /\ pc = "idle"
    /\ tool' = "run_image"
    /\ input' = in
    /\ Prepared(run_image_prepare(in), {"ValueError", "TypeError", "AttributeError"})
    /\ UNCHANGED <<policy, snapshot, elsewhere, procs>>

\* subprocess.run starts the child: Popen(["kubectl"] + args, shell=False)
argv_of(args) == <<Kubectl>> \o args

\* the result of an exception other than TimeoutExpired in the executing part
ExecErrorResult(msg) ==
    IF tool = "kubectl" THEN ErrorResultWithStreams(msg) ELSE ErrorResult(msg)

\* Popen raises before any process exists when an argument is not a str
Spawn ==
    /\ pc = "exec"
    /\ IF \A i \in 1..Len(kubectl_args) : IsStr(kubectl_args[i])
       THEN /\ procs' = Append(procs, [argv |-> argv_of(kubectl_args),
                                       status |-> "running", exit |-> <<>>])
            /\ pc' = "wait"
            /\ UNCHANGED result
       ELSE /\ result' = ExecErrorResult(MsgType)
            /\ pc' = "done"
            /\ UNCHANGED procs
    /\ UNCHANGED <<policy, snapshot, elsewhere, tool, input, kubectl_args, raised>>

\* Popen raises OSError: the binary is missing or may not be executed
SpawnFailure ==
    /\ pc = "exec"
    /\ result' = ExecErrorResult(MsgSpawn)
    /\ pc' = "done"
    /\ UNCHANGED <<policy, snapshot, elsewhere, tool, input, kubectl_args, procs, raised>>

\* the child exits within TIMEOUT seconds; subprocess.run returns the
\* CompletedProcess with its returncode, stdout and stderr
ChildExit(o) ==
    /\ pc = "wait"
    /\ procs' = [procs EXCEPT ![Len(procs)].status = "exited",
                              ![Len(procs)].exit = <<o>>]
    /\ result' = ExitResult(o)
    /\ pc' = "done"
    /\ UNCHANGED <<policy, snapshot, elsewhere, tool, input, kubectl_args, raised>>

\* fault: the command is started once more after a timeout
ChildTimeout_retry ==
    /\ pc = "wait"
    /\ IF Len(procs) < 2
       THEN /\ procs' = Append([procs EXCEPT ![Len(procs)].status = "killed"],
                               [argv |-> <<Kubectl>> \o kubectl_args,
                                status |-> "running", exit |-> <<>>])
            /\ pc' = "wait"
            /\ UNCHANGED result
       ELSE /\ procs' = [procs EXCEPT ![Len(procs)].status = "killed"]
            /\ result' = ErrorResultWithStreams(MsgTimedOut)
            /\ pc' = "done"
    /\ UNCHANGED <<policy, snapshot, elsewhere, tool, input, kubectl_args, raised>>

\* fault: a command that timed out gets twice the time from then on
ChildTimeout_backoff ==
    /\ pc = "wait"
    /\ procs' = [procs EXCEPT ![Len(procs)].status = "killed"]
    /\ result' = ErrorResultWithStreams(MsgTimedOut)
    /\ pc' = "done"
    /\ TIMEOUT' = IF TIMEOUT < 4 * DefaultTimeout THEN 2 * TIMEOUT ELSE TIMEOUT
    /\ UNCHANGED <<ALLOWED_COMMANDS, DANGEROUS_FLAGS, ALLOWED_IMAGES, snapshot,
                   elsewhere, tool, input, kubectl_args, raised>>

\* fault: subprocess.run is called without timeout=, the wait has no bound
ChildTimeout_unbounded ==
    /\ pc = "wait"
    /\ FALSE
    /\ UNCHANGED vars

\* fault: TimeoutExpired is raised while the child is left running
ChildTimeout_no_kill ==
    /\ pc = "wait"
    /\ result' = ErrorResultWithStreams(MsgTimedOut)
    /\ pc' = "done"
    /\ UNCHANGED <<policy, snapshot, elsewhere, tool, input, kubectl_args, procs, raised>>

\* TIMEOUT seconds pass: subprocess.run kills the child, reaps it and raises
\* TimeoutExpired, which both tools turn into a result
ChildTimeout ==
    /\ pc = "wait"
    /\ procs' = [procs EXCEPT ![Len(procs)].status = "killed"]
    /\ result' = ErrorResultWithStreams(MsgTimedOut)
    /\ pc' = "done"
    /\ UNCHANGED <<policy, snapshot, elsewhere, tool, input, kubectl_args, raised>>

\* the caller has the outcome; the next invocation starts from nothing
Finish ==
    /\ pc = "done"
    /\ tool' = "none"
    /\ input' = NoInput
    /\ pc' = "idle"
    /\ kubectl_args' = <<>>
    /\ procs' = <<>>
    /\ result' = NoResult
    /\ raised' = "none"
    /\ snapshot' = NoSnapshot
    /\ UNCHANGED <<policy, elsewhere>>

\* a caller invokes the kubectl tool: with a vector of at most MaxArgs
\* tokens, at most one of them rare, as a sequence or as its JSON text, or
\* with a text that is no JSON array of strings
kubectl ==
    /\ pc = "idle"
    /\ \/ \E asText \in BOOLEAN, k \in 0..MaxArgs :
             \E v \in [1..k -> PlainTokens] :
                KubectlCall(KubectlInput(AsArg(asText, v)))
       \/ \E asText \in BOOLEAN, k \in 0..(MaxArgs - 1) :
             \E v \in [1..k -> PlainTokens], i \in 1..(k + 1), t \in RareTokens :
                KubectlCall(KubectlInput(AsArg(asText, InsertAt(v, i, t))))
       \/ \E t \in OddTexts : KubectlCall(KubectlInput(TextArg(t)))

\* a caller invokes the run_image tool
run_image ==
    /\ pc = "idle"
    /\ \E n \in Names, im \in Images, ns \in Namespaces, c \in RunCommands,
          rm \in BOOLEAN :
          RunImageCall(RunImageInput(n, im, ns, c, rm))

\* a caller invokes the get_config tool
get_config ==
    /\ pc = "idle"
    /\ tool' = "get_config"
    /\ snapshot' = get_config_result
    /\ pc' = "done"
    /\ UNCHANGED <<policy, elsewhere, input, kubectl_args, procs, result, raised>>

\* the caller edits a list of the dictionary it holds
caller_edits_snapshot ==
    /\ tool = "get_config"
    /\ pc = "done"
    /\ \E key \in ListKeys, e \in ListEdits :
          LET lst == edit_list(snapshot[key], e) IN
          /\ e = "append" => Exec \notin Range(snapshot[key])
          /\ lst # snapshot[key]
          /\ snapshot' = [snapshot EXCEPT ![key] = lst]
          /\ ALLOWED_COMMANDS' = global_after("allowed_commands", key, lst)
          /\ DANGEROUS_FLAGS'  = global_after("dangerous_flags", key, lst)
          /\ ALLOWED_IMAGES'   = global_after("allowed_images", key, lst)
    /\ UNCHANGED <<TIMEOUT, elsewhere, tool, input, pc, kubectl_args, procs,
                   result, raised>>

Next ==
    \/ kubectl
    \/ run_image
    \/ get_config
    \/ caller_edits_snapshot
    \/ Spawn
    \/ SpawnFailure
    \/ \E o \in ExitOutcomes : ChildExit(o)
    \/ ChildTimeout
    \/ Finish

Spec == Init /\ [][Next]_vars

\* subprocess.run(..., timeout=TIMEOUT) waits on the child with a deadline:
\* the clock advances, so a wait that is not ended by the child's exit is
\* ended by the timeout
FairSpec == Spec /\ WF_vars(ChildTimeout)

----------------------------------------------------------------------------
(* Several invocations in flight: the transport runs each tool call on a   *)
(* thread of its own.  A slot holds the locals of one call; the module     *)
(* globals are shared.                                                     *)

\* most invocations in flight at a time
MaxInFlight == 2

Slots == 1..MaxInFlight

IdleSlot ==
    [tool |-> "none", input |-> NoInput, pc |-> "idle", kubectl_args |-> <<>>,
     procs |-> <<>>, result |-> NoResult, raised |-> "none"]

\* the calls the concurrent callers make
ConcCalls ==
    { [tool |-> "kubectl", input |-> KubectlInput(ListArg(<<Get, Pods>>))],
      [tool |-> "kubectl", input |-> KubectlInput(ListArg(<<Exec, Pods>>))],
      [tool |-> "kubectl", input |-> KubectlInput(ListArg(<<Get, FlagAs>>))],
      [tool |-> "kubectl", input |-> KubectlInput(ListArg(<<Get, <<"a", ";", "b">>>>))],
      [tool |-> "kubectl", input |-> KubectlInput(TextArg(JsonEncode(<<Kubectl, Get>>)))],
      [tool |-> "run_image",
       input |-> RunImageInput(<<"p", "1">>, Busybox, None, NoCommand, TRUE)],
      [tool |-> "run_image",
       input |-> RunImageInput(<<"p", "1">>, Nginx, <<"n", "s">>,
                               [isNone |-> FALSE, isStr |-> FALSE, text |-> <<>>,
                                list |-> <<Sh>>], FALSE)] }

\* the exception types the except clauses of a tool turn into a result
caught_by(t) ==
    IF t = "kubectl" THEN {"ValueError"}
    ELSE {"ValueError", "TypeError", "AttributeError"}

\* fault: the validated vector is kept in a module global, and a call made
\* while another is executing finds that vector there
conc_prepare_shared(s, c) ==
    IF \E t \in Slots \ {s} : inv[t].pc \in {"exec", "wait"}
    THEN Return(inv[CHOOSE t \in Slots \ {s} : inv[t].pc \in {"exec", "wait"}].kubectl_args)
    ELSE IF c.tool = "kubectl" THEN kubectl_prepare(c.input)
    ELSE run_image_prepare(c.input)

\* the part of the tool before the child process is started, on the call's
\* own arguments
conc_prepare(s, c) ==
    IF c.tool = "kubectl" THEN kubectl_prepare(c.input)
    ELSE run_image_prepare(c.input)

\* the slot after that part returned or raised r
slot_prepared(sl, r) ==
    IF r.exc = "none" THEN [sl EXCEPT !.kubectl_args = r.val, !.pc = "exec"]
    ELSE IF r.exc \in caught_by(sl.tool)
    THEN [sl EXCEPT !.result = ErrorResult(r.msg), !.pc = "done"]
    ELSE [sl EXCEPT !.raised = r.exc, !.pc = "done"]

\* the single-invocation variables and the other servers, not used when
\* dispatch is concurrent
single == <<tool, input, pc, kubectl_args, procs, result, raised, snapshot,
            awsVars, poolVars>>

ConcInit ==
    /\ \E p \in Policies :
          /\ ALLOWED_COMMANDS = p.cmds
          /\ DANGEROUS_FLAGS = p.flags
          /\ ALLOWED_IMAGES = p.images
    /\ TIMEOUT = DefaultTimeout
    /\ tool = "none"
    /\ input = NoInput
    /\ pc = "idle"
    /\ kubectl_args = <<>>
    /\ procs = <<>>
    /\ result = NoResult
    /\ raised = "none"
    /\ snapshot = NoSnapshot
    /\ inv = [s \in Slots |-> IdleSlot]
    /\ AwsUnused
    /\ PoolUnused

\* a caller invokes kubectl or run_image on a free thread
ConcCall(s) ==
    /\ inv[s].pc = "idle"
    /\ \E c \in ConcCalls :
          inv' = [inv EXCEPT ![s] =
                     slot_prepared([IdleSlot EXCEPT !.tool = c.tool,
                                                    !.input = c.input],
                                   conc_prepare(s, c))]
    /\ UNCHANGED <<policy, single>>

\* the result of an exception other than TimeoutExpired in the executing part
slot_error(sl, msg) ==
    IF sl.tool = "kubectl" THEN ErrorResultWithStreams(msg) ELSE ErrorResult(msg)

\* fault: subprocess.run is called under a lock that all invocations share
ConcSpawn_serial(s) ==
    /\ inv[s].pc = "exec"
    /\ \A t \in Slots \ {s} : inv[t].pc # "wait"
    /\ inv' = [inv EXCEPT ![s].procs = Append(@, [argv |-> argv_of(inv[s].kubectl_args),
                                                  status |-> "running",
                                                  exit |-> <<>>]),
                          ![s].pc = "wait"]
    /\ UNCHANGED <<policy, single>>

\* subprocess.run starts the child of the invocation
ConcSpawn(s) ==
    /\ inv[s].pc = "exec"
    /\ inv' = [inv EXCEPT ![s].procs = Append(@, [argv |-> argv_of(inv[s].kubectl_args),
                                                  status |-> "running",
                                                  exit |-> <<>>]),
                          ![s].pc = "wait"]
    /\ UNCHANGED <<policy, single>>

\* Popen raises OSError
ConcSpawnFailure(s) ==
    /\ inv[s].pc = "exec"
    /\ inv' = [inv EXCEPT ![s].result = slot_error(inv[s], MsgSpawn),
                          ![s].pc = "done"]
    /\ UNCHANGED <<policy, single>>

\* the child of the invocation exits within TIMEOUT seconds
ConcChildExit(s, o) ==
    /\ inv[s].pc = "wait"
    /\ inv' = [inv EXCEPT ![s].procs[Len(inv[s].procs)].status = "exited",
                          ![s].procs[Len(inv[s].procs)].exit = <<o>>,
                          ![s].result = ExitResult(o),
                          ![s].pc = "done"]
    /\ UNCHANGED <<policy, single>>

\* TIMEOUT seconds pass: the child of the invocation is killed and reaped
ConcChildTimeout(s) ==
    /\ inv[s].pc = "wait"
    /\ inv' = [inv EXCEPT ![s].procs[Len(inv[s].procs)].status = "killed",
                          ![s].result = ErrorResultWithStreams(MsgTimedOut),
                          ![s].pc = "done"]
    /\ UNCHANGED <<policy, single>>

\* the caller has the outcome; the thread is free
ConcFinish(s) ==
    /\ inv[s].pc = "done"
    /\ inv' = [inv EXCEPT ![s] = IdleSlot]
    /\ UNCHANGED <<policy, single>>

\* the steps of the invocation on thread s
ConcStep(s) ==
    \/ ConcCall(s)
    \/ ConcSpawn(s)
    \/ ConcSpawnFailure(s)
    \/ \E o \in ExitOutcomes : ConcChildExit(s, o)
    \/ ConcChildTimeout(s)
    \/ ConcFinish(s)

ConcNext ==
    \/ \E s \in Slots : ConcCall(s)
    \/ \E s \in Slots : ConcSpawn(s)
    \/ \E s \in Slots : ConcSpawnFailure(s)
    \/ \E s \in Slots, o \in ExitOutcomes : ConcChildExit(s, o)
    \/ \E s \in Slots : ConcChildTimeout(s)
    \/ \E s \in Slots : ConcFinish(s)

ConcSpec == ConcInit /\ [][ConcNext]_vars

\* every thread is scheduled, and the clock of every wait advances
ConcFairSpec ==
    /\ ConcSpec
    /\ \A s \in Slots : WF_vars(ConcSpawn(s) \/ ConcSpawnFailure(s))
    /\ \A s \in Slots : WF_vars(ConcChildTimeout(s))

----------------------------------------------------------------------------
(* aws-multi-account: setup_aws_profiles and the credential refresh thread *)

MaxCallers == 2                      \* overlapping calls of setup_aws_profiles
MaxThreads == MaxCallers             \* Thread objects the model lets exist
Callers    == 1..MaxCallers
ThreadIds  == 1..MaxThreads
Sessions   == {0, 1}                 \* STS sessions, numbered cyclically

Dev  == "dev"
Prod == "prod"
ProfileNames == {Dev, Prod}

\* one entry of config['profiles']: which keys the profile carries
Profile(n, r, a) == [name |-> n, role_arn |-> r, account_id |-> a]

NoAccountsFile == [exists |-> FALSE, profiles |-> <<>>]

AccountsFiles ==
    {NoAccountsFile} \cup
    { [exists |-> TRUE, profiles |-> ps] :
        ps \in { <<Profile(Dev, TRUE, TRUE),  Profile(Prod, TRUE, TRUE)>>,
                 <<Profile(Dev, TRUE, TRUE),  Profile(Prod, TRUE, FALSE)>>,
                 <<Profile(Dev, FALSE, TRUE), Profile(Prod, TRUE, TRUE)>> } }

\* the five lines of one profile, holding the credentials of one STS session
credentials_to_file_lines(profile_name, creds) ==
    [profile |-> profile_name, session |-> creds]

\* the loop over the profiles: the first failure raises, the lines gathered
\* so far stay in the local list
RECURSIVE process_profiles_to_credentials(_, _, _, _)
process_profiles_to_credentials(ps, failing, creds, credentials_lines) ==
    IF ps = <<>> THEN [raised |-> "none", lines |-> credentials_lines]
    ELSE LET p == Head(ps) IN
         IF ~p.role_arn
         THEN [raised |-> "KeyError", lines |-> credentials_lines]
         ELSE IF p.name \in failing
         THEN [raised |-> "ClientError", lines |-> credentials_lines]
         ELSE LET extended ==
                      Append(credentials_lines,
                             credentials_to_file_lines(p.name, creds)) IN
              IF ~p.account_id
              THEN [raised |-> "Exception", lines |-> extended]
              ELSE process_profiles_to_credentials(Tail(ps), failing, creds,
                                                   extended)

\* open(path, 'w') and write: the file holds the lines given, nothing else
write_credentials_file(credentials_lines) == credentials_lines

\* a refresh that writes what it has gathered, failed or not
refresh_credentials_eager(file, config, failing, creds) ==
    LET r == process_profiles_to_credentials(config.profiles, failing, creds, <<>>)
    IN [raised |-> r.raised, file |-> write_credentials_file(r.lines)]

\* _refresh_credentials: the file is written after every profile is processed
refresh_credentials(file, config, failing, creds) ==
    LET r == process_profiles_to_credentials(config.profiles, failing, creds, <<>>)
    IN [raised |-> r.raised,
        file   |-> IF r.raised = "none" THEN write_credentials_file(r.lines)
                   ELSE file]

\* threading.Thread(...): created, not started
NewThread == [pc |-> "new"]

\* Thread.is_alive(): started and its target has not returned
is_alive(t) == threads[t].pc \in {"sleep", "refresh"}

IdleCall == [pc |-> "idle", raised |-> "none"]

\* the gateway is not running
GatewayUnused ==
    /\ ALLOWED_COMMANDS = {}
    /\ DANGEROUS_FLAGS = {}
    /\ ALLOWED_IMAGES = {}
    /\ TIMEOUT = DefaultTimeout
    /\ tool = "none"
    /\ input = NoInput
    /\ pc = "idle"
    /\ kubectl_args = <<>>
    /\ procs = <<>>
    /\ result = NoResult
    /\ raised = "none"
    /\ snapshot = NoSnapshot
    /\ inv = <<>>

AwsInit ==
    /\ GatewayUnused
    /\ PoolUnused
    /\ profiles_config \in AccountsFiles
    /\ refresh_thread = 0
    /\ threads = <<>>
    /\ setup_calls = [c \in Callers |-> IdleCall]
    /\ credentials_file = <<>>
    /\ sts_serial = 0
    /\ refresh_log = <<>>

notAws == <<policy, tool, input, pc, kubectl_args, procs, result, raised,
            snapshot, inv, poolVars>>

\* what the refresh run by thread "by" logged, the exception or "none";
\* "by" is 0 for the refresh setup_aws_profiles runs itself
Logged(by, exc) == <<by, exc>>

\* setup_aws_profiles up to the test of the thread: without an accounts file
\* it returns at once; the exception of its refresh leaves the function
setup_begin(c) ==
    /\ setup_calls[c].pc = "idle"
    /\ IF ~profiles_config.exists
       THEN /\ setup_calls' = [setup_calls EXCEPT ![c] = IdleCall]
            /\ UNCHANGED <<credentials_file, sts_serial, refresh_log>>
       ELSE /\ \E failing \in SUBSET ProfileNames :
                  LET r == refresh_credentials(credentials_file, profiles_config,
                                               failing, sts_serial) IN
                  /\ credentials_file' = r.file
                  /\ refresh_log' = Logged(0, r.raised)
                  /\ setup_calls' = [setup_calls EXCEPT ![c] =
                                        IF r.raised = "none"
                                        THEN [pc |-> "check", raised |-> "none"]
                                        ELSE [pc |-> "idle", raised |-> r.raised]]
            /\ sts_serial' = (sts_serial + 1) % Cardinality(Sessions)
    /\ UNCHANGED <<notAws, profiles_config, refresh_thread, threads>>

\* if _refresh_thread is None or not _refresh_thread.is_alive():
setup_check(c) ==
    /\ setup_calls[c].pc = "check"
    /\ setup_calls' = [setup_calls EXCEPT ![c].pc =
                          IF refresh_thread = 0 \/ ~is_alive(refresh_thread)
                          THEN "create" ELSE "idle"]
    /\ UNCHANGED <<notAws, profiles_config, refresh_thread, threads,
                   credentials_file, sts_serial, refresh_log>>

\* _refresh_thread = threading.Thread(target=_refresh_loop, ...)
setup_create(c) ==
    /\ setup_calls[c].pc = "create"
    /\ Len(threads) < MaxThreads
    /\ threads' = Append(threads, NewThread)
    /\ refresh_thread' = Len(threads) + 1
    /\ setup_calls' = [setup_calls EXCEPT ![c].pc = "start"]
    /\ UNCHANGED <<notAws, profiles_config, credentials_file, sts_serial,
                   refresh_log>>

\* _refresh_thread.start(): the global is read again; a thread starts once
setup_start(c) ==
    /\ setup_calls[c].pc = "start"
    /\ IF threads[refresh_thread].pc = "new"
       THEN /\ threads' = [threads EXCEPT ![refresh_thread].pc = "sleep"]
            /\ setup_calls' = [setup_calls EXCEPT ![c] = IdleCall]
       ELSE /\ threads' = threads
            /\ setup_calls' = [setup_calls EXCEPT ![c] =
                                  [pc |-> "idle", raised |-> "RuntimeError"]]
    /\ UNCHANGED <<notAws, profiles_config, refresh_thread, credentials_file,
                   sts_serial, refresh_log>>

\* _refresh_loop: time.sleep(AWS_REFRESH_CREDENTIALS_SEC) returns
refresh_loop_wake(t) ==
    /\ t <= Len(threads)
    /\ threads[t].pc = "sleep"
    /\ threads' = [threads EXCEPT ![t].pc = "refresh"]
    /\ UNCHANGED <<notAws, profiles_config, refresh_thread, setup_calls,
                   credentials_file, sts_serial, refresh_log>>

\* a loop with the try around it: the first exception ends the thread
refresh_loop_refresh_exits(t) ==
    /\ t <= Len(threads)
    /\ threads[t].pc = "refresh"
    /\ \E failing \in SUBSET ProfileNames :
          LET r == refresh_credentials(credentials_file, profiles_config,
                                       failing, sts_serial) IN
          /\ credentials_file' = r.file
          /\ refresh_log' = Logged(t, r.raised)
          /\ threads' = [threads EXCEPT ![t].pc =
                            IF r.raised = "none" THEN "sleep" ELSE "dead"]
    /\ sts_serial' = (sts_serial + 1) % Cardinality(Sessions)
    /\ UNCHANGED <<notAws, profiles_config, refresh_thread, setup_calls>>

\* _refresh_loop: the refresh; its exception is logged and the loop goes on
refresh_loop_refresh(t) ==
    /\ t <= Len(threads)
    /\ threads[t].pc = "refresh"
    /\ \E failing \in SUBSET ProfileNames :
          LET r == refresh_credentials(credentials_file, profiles_config,
                                       failing, sts_serial) IN
          /\ credentials_file' = r.file
          /\ refresh_log' = Logged(t, r.raised)
    /\ threads' = [threads EXCEPT ![t].pc = "sleep"]
    /\ sts_serial' = (sts_serial + 1) % Cardinality(Sessions)
    /\ UNCHANGED <<notAws, profiles_config, refresh_thread, setup_calls>>

AwsNext ==
    \/ \E c \in Callers : setup_begin(c)
    \/ \E c \in Callers : setup_check(c)
    \/ \E c \in Callers : setup_create(c)
    \/ \E c \in Callers : setup_start(c)
    \/ \E t \in ThreadIds : refresh_loop_wake(t)
    \/ \E t \in ThreadIds : refresh_loop_refresh(t)

AwsSpec == AwsInit /\ [][AwsNext]_vars

\* a started thread is scheduled: its sleep ends and its refresh returns
AwsFairSpec ==
    /\ AwsSpec
    /\ \A t \in ThreadIds : WF_vars(refresh_loop_wake(t))
    /\ \A t \in ThreadIds : WF_vars(refresh_loop_refresh(t))

-----------------------------------------------------------------------------
(* mariadb: get_db_connection and cleanup                                  *)

MaxCoroutines == 2                   \* tool calls on the event loop at once
MaxPools      == MaxCoroutines       \* pools the model lets be created
Coroutines    == 1..MaxCoroutines

IdleCoroutine == [pc |-> "idle", pool |-> 0, raised |-> "none"]

\* asyncmy.create_pool(...) returns a pool that is open
NewPool == [closing |-> FALSE]

PoolInit ==
    /\ GatewayUnused
    /\ AwsUnused
    /\ db_pool = 0
    /\ pools = <<>>
    /\ db_calls = [k \in Coroutines |-> IdleCoroutine]
    /\ cleanup_pc = "idle"

notPool == <<policy, tool, input, pc, kubectl_args, procs, result, raised,
             snapshot, inv, awsVars>>

\* get_db_connection up to its first await: with no pool it suspends in
\* create_pool; with a pool it acquires a connection from it, and acquire
\* raises on a pool that is closing
get_db_connection(k) ==
    /\ db_calls[k].pc = "idle"
    /\ IF db_pool = 0
       THEN /\ Len(pools) + Cardinality({j \in Coroutines :
                                          db_calls[j].pc = "creating"}) < MaxPools
            /\ db_calls' = [db_calls EXCEPT ![k] =
                               [pc |-> "creating", pool |-> 0, raised |-> "none"]]
       ELSE db_calls' = [db_calls EXCEPT ![k] =
                            IF pools[db_pool].closing
                            THEN [pc |-> "idle", pool |-> 0,
                                  raised |-> "RuntimeError"]
                            ELSE [pc |-> "using", pool |-> db_pool,
                                  raised |-> "none"]]
    /\ UNCHANGED <<notPool, db_pool, pools, cleanup_pc>>

\* db_pool = await asyncmy.create_pool(...) resumes: the new pool is bound
\* to the global, whatever it held, and the connection comes from it
create_pool_returns(k) ==
    /\ db_calls[k].pc = "creating"
    /\ pools' = Append(pools, NewPool)
    /\ db_pool' = Len(pools) + 1
    /\ db_calls' = [db_calls EXCEPT ![k] =
                       [pc |-> "using", pool |-> Len(pools) + 1,
                        raised |-> "none"]]
    /\ UNCHANGED <<notPool, cleanup_pc>>

\* the caller's block ends: cursor and connection are given back
release(k) ==
    /\ db_calls[k].pc = "using"
    /\ db_calls' = [db_calls EXCEPT ![k] = IdleCoroutine]
    /\ UNCHANGED <<notPool, db_pool, pools, cleanup_pc>>

\* cleanup up to its await: without a pool it does nothing
cleanup ==
    /\ cleanup_pc = "idle"
    /\ IF db_pool = 0
       THEN /\ cleanup_pc' = "done"
            /\ pools' = pools
       ELSE /\ cleanup_pc' = "closing"
            /\ pools' = [pools EXCEPT ![db_pool].closing = TRUE]
    /\ UNCHANGED <<notPool, db_pool, db_calls>>

\* await db_pool.wait_closed() resumes: db_pool = None
cleanup_closed ==
    /\ cleanup_pc = "closing"
    /\ db_pool' = 0
    /\ cleanup_pc' = "done"
    /\ UNCHANGED <<notPool, pools, db_calls>>

PoolNext ==
    \/ \E k \in Coroutines : get_db_connection(k)
    \/ \E k \in Coroutines : create_pool_returns(k)
    \/ \E k \in Coroutines : release(k)
    \/ cleanup
    \/ cleanup_closed

PoolSpec == PoolInit /\ [][PoolNext]_vars

----------------------------------------------------------------------------
(* The vocabulary of the specification, stated apart from the code         *)

\* section 4.3 step 4c: semicolon, pipe, ampersand, dollar, backtick,
\* backslash, single quote, carriage return, line feed
ReservedMetachars == {";", "|", "&", "$", Backtick, "\\", "'", "\r", "\n"}
DoubleQuote == "\""

HasAnyOf(tok, chars) == \E i \in 1..Len(tok) : tok[i] \in chars

\* the flag name of a token: the substring before its first "="
FlagNameOf(tok) ==
    CHOOSE p \in {SubSeq(tok, 1, k) : k \in 0..Len(tok)} :
        /\ \A i \in 1..Len(p) : p[i] # "="
        /\ (Len(p) = Len(tok) \/ tok[Len(p) + 1] = "=")

\* a token the flag blocklist is about
IsDangerousToken(tok) ==
    FlagNameOf(tok) \in DANGEROUS_FLAGS \/ FlagNameOf(tok) = Overrides

\* the vector with one redundant leading tool name dropped
DropToolName(v) == IF v # <<>> /\ v[1] = Kubectl THEN Tail(v) ELSE v

\* section 4.4
SpecNameChars == Lower \cup Upper \cup Digits \cup {"-"}
SpecNameOK(name) ==
    /\ name # <<>>
    /\ name[1] # "-"
    /\ Len(name) <= 253
    /\ name[1] \in Lower \cup Digits
    /\ \A i \in 1..Len(name) : name[i] \in SpecNameChars

\* section 7: the category of an error message
Category(msg) ==
    CASE msg \in {MsgInvalidJSON, MsgExpectedArray} -> "InvalidInput"
      [] msg \in {MsgNoArgs, MsgNoCommand} -> "EmptyCommand"
      [] msg = MsgNotAllowed -> "CommandNotAllowed"
      [] msg = MsgFlag -> "FlagNotPermitted"
      [] msg \in {MsgChars, MsgCmdChars, MsgNsChars} -> "InvalidCharacters"
      [] msg \in {MsgNameEmpty, MsgNameHyphen, MsgNameChars, MsgNameLong,
                  MsgNameStart} -> "InvalidResourceName"
      [] msg = MsgDisabled -> "FeatureDisabled"
      [] msg = MsgImage -> "ImageNotAllowed"
      [] msg = MsgTimedOut -> "Timeout"
      [] msg = MsgSpawn -> "SpawnFailure"
      [] OTHER -> "Other"

ValidationCategories ==
    {"InvalidInput", "EmptyCommand", "CommandNotAllowed", "FlagNotPermitted",
     "InvalidCharacters", "InvalidResourceName", "FeatureDisabled",
     "ImageNotAllowed"}

\* the invocation ended in a structured rejection of the given category
RejectedWith(cat) ==
    /\ pc = "done"
    /\ raised = "none"
    /\ procs = <<>>
    /\ result.keys = {"success", "error"}
    /\ ~result.success
    /\ Category(result.error) = cat

ValidationRejected ==
    /\ pc = "done"
    /\ raised = "none"
    /\ result.keys = {"success", "error"}
    /\ Category(result.error) \in ValidationCategories

\* validation accepted and returned the vector v
AcceptedAs(v) ==
    /\ raised = "none"
    /\ kubectl_args = v
    /\ pc \in {"exec", "wait", "done"}
    /\ ~ValidationRejected

\* the kubectl tool was called with a sequence of strings
ListCall == tool = "kubectl" /\ ~input.args.isStr
V == input.args.list

\* index of the first token of v that satisfies P, 0 when there is none
FirstIndex(v, P(_)) ==
    IF \E i \in 1..Len(v) : P(v[i])
    THEN CHOOSE i \in 1..Len(v) : P(v[i]) /\ \A j \in 1..(i - 1) : ~P(v[j])
    ELSE 0

HasReserved(tok)        == HasAnyOf(tok, ReservedMetachars)
HasReservedOrQuote(tok) == HasAnyOf(tok, ReservedMetachars \cup {DoubleQuote})

----------------------------------------------------------------------------
(* Properties                                                              *)

\* C1: every child process the kubectl tool has spawned was started with
\* argv = <<"kubectl">> \o v, where v[1] is an allowed subcommand, no token
\* of v has a flag name in DANGEROUS_FLAGS or equal to "--overrides", and no
\* token of v holds a reserved metacharacter; for a sequence input v is the
\* input with one leading "kubectl" dropped.  The input is a sequence or a
\* JSON text.
C1_KubectlGate ==
    tool = "kubectl" =>
        \A i \in 1..Len(procs) :
            LET argv == procs[i].argv
                v    == Tail(argv)
            IN  /\ argv[1] = Kubectl
                /\ v # <<>>
                /\ v[1] \in ALLOWED_COMMANDS
                /\ \A k \in 1..Len(v) :
                      /\ IsStr(v[k])
                      /\ ~IsDangerousToken(v[k])
                      /\ ~HasReserved(v[k])
                /\ (~input.args.isStr => v = DropToolName(V))

\* a process spawned for a JSON text of at least two tokens
C1_Witness ==
    /\ tool = "kubectl"
    /\ input.args.isStr
    /\ procs # <<>>
    /\ Len(procs[1].argv) >= 3

\* C2: every child process run_image has spawned was started with argv
\* beginning "kubectl", "run", name, "--image=" + image, "--restart=Never",
\* where name is a valid resource name and image is a member of
\* ALLOWED_IMAGES.
C2_RunImageGate ==
    tool = "run_image" =>
        \A i \in 1..Len(procs) :
            LET argv == procs[i].argv
            IN  /\ Len(argv) >= 5
                /\ SubSeq(argv, 1, 5) =
                     <<Kubectl, Run, input.name, ImageEq \o input.image, RestartNever>>
                /\ SpecNameOK(input.name)
                /\ input.image \in ALLOWED_IMAGES

\* run_image has spawned a process, with a namespace and a command
C2_Witness ==
    /\ tool = "run_image"
    /\ procs # <<>>
    /\ Len(procs[1].argv) > 5

\* what the validation steps of the invocation in progress establish
ValidationComplete ==
    /\ \A k \in 1..Len(kubectl_args) :
          IsStr(kubectl_args[k]) /\ ~HasReserved(kubectl_args[k])
    /\ tool = "kubectl" =>
          /\ kubectl_args # <<>>
          /\ kubectl_args[1] \in ALLOWED_COMMANDS
          /\ \A k \in 1..Len(kubectl_args) : ~IsDangerousToken(kubectl_args[k])
    /\ tool = "run_image" =>
          /\ SpecNameOK(input.name)
          /\ input.image \in ALLOWED_IMAGES
          /\ ~HasReserved(input.namespace)

\* C3: an invocation spawns at most one child process, also after a
\* timeout, none when it ends in a validation rejection, and none before
\* every validation step has completed.
C3_AtMostOneSpawn ==
    /\ Len(procs) <= 1
    /\ (ValidationRejected => procs = <<>>)
    /\ (procs # <<>> =>
          /\ pc \in {"wait", "done"}
          /\ ~ValidationRejected
          /\ ValidationComplete
          /\ procs[1].argv = <<Kubectl>> \o kubectl_args)

\* an invocation that timed out and has returned: one process, killed
C3_Witness ==
    /\ pc = "done"
    /\ Len(procs) = 1
    /\ procs[1].status = "killed"
    /\ Category(result.error) = "Timeout"

\* C4: no invocation ends in an unhandled fault: every invocation that has
\* ended returned a result with a "success" field, and no exception left
\* the tool function.
C4_NoUnhandledFault ==
    /\ raised = "none"
    /\ (pc = "done" /\ tool \in {"kubectl", "run_image"}
          => "success" \in result.keys)

\* C5: a vector whose subcommand is allowed and which holds no
\* dangerous-flag token and no reserved metacharacter is accepted, and
\* returned with the leading tool name dropped and nothing else changed.
C5_Acceptance ==
    LET w == DropToolName(V) IN
    ( /\ ListCall
      /\ w # <<>>
      /\ w[1] \in ALLOWED_COMMANDS
      /\ \A k \in 1..Len(V) : ~IsDangerousToken(V[k]) /\ ~HasReserved(V[k]) )
    => AcceptedAs(w)

\* C6: a vector with an allowed subcommand whose tokens hold double quotes
\* and no reserved metacharacter (and no dangerous flag) is accepted and
\* returned with those tokens intact.
C6_DoubleQuoteAccepted ==
    LET w == DropToolName(V) IN
    ( /\ ListCall
      /\ w # <<>>
      /\ w[1] \in ALLOWED_COMMANDS
      /\ \E k \in 1..Len(V) : HasAnyOf(V[k], {DoubleQuote})
      /\ \A k \in 1..Len(V) : ~IsDangerousToken(V[k]) /\ ~HasReserved(V[k]) )
    => AcceptedAs(w)

OneOfRejections(cats) == \E c \in cats : RejectedWith(c)

IsBlockedFlagToken(tok) ==
    /\ FlagNameOf(tok) \in DANGEROUS_FLAGS
    /\ Len(FlagNameOf(tok)) > 2
    /\ SubSeq(tok, 1, 2) = <<"-", "-">>

HasOverrides(w) ==
    /\ w # <<>>
    /\ w[1] \in ALLOWED_COMMANDS
    /\ \E k \in 1..Len(w) : FlagNameOf(w[k]) = Overrides

IsOverridesToken(tok) == FlagNameOf(tok) = Overrides

C10_SubcommandAllowlist ==
    LET w == DropToolName(V) IN
    (ListCall /\ w # <<>> /\ w[1] \notin ALLOWED_COMMANDS)
    => RejectedWith("CommandNotAllowed")

\* exec followed by a dangerous flag, rejected for the subcommand
C10_Witness ==
    /\ ListCall
    /\ RejectedWith("CommandNotAllowed")
    /\ Len(V) >= 2
    /\ V[1] = Exec
    /\ IsDangerousToken(V[2])

\* the vector v was sent, as a sequence or as its JSON text
SentVector(v) ==
    /\ tool = "kubectl"
    /\ input.args \in {AsArg(asText, v) : asText \in BOOLEAN}

\* C11: the empty vector and the vector <<"kubectl">>, sent as a sequence or
\* as JSON text, are both rejected with EmptyCommand, under every policy
\* (the subcommand allowlist is not consulted) and with no process spawned.
C11_EmptyCommand ==
    (SentVector(<<>>) \/ SentVector(<<Kubectl>>)) => RejectedWith("EmptyCommand")

\* the vector <<"kubectl">> rejected as an empty command
C11_Witness ==
    /\ ListCall
    /\ V = <<Kubectl>>
    /\ RejectedWith("EmptyCommand")
    /\ result.error = MsgNoCommand

\* texts that are not JSON at all
MalformedTexts ==
    { <<>>,
      <<"g","e","t">>,
      <<"[","\"","g","e","t","\"">>,
      <<"[","\"","g","e","t","\"",",","]">>,
      <<"[","\"","g","e","t","\"","]","x">>,
      <<"[","\"","a","\n","b","\"","]">> }

\* JSON texts of a string, a number, null and an object
NonArrayTexts ==
    { <<"\"","g","e","t","\"">>, <<"5">>, <<"n","u","l","l">>,
      <<"{","\"","a","\"",":","1","}">> }

\* the state the caller sees once the steps before execution ended as r
StateShows(r) ==
    IF r.exc = "none" THEN AcceptedAs(r.val)
    ELSE /\ pc = "done"
         /\ procs = <<>>
         /\ IF r.exc = "ValueError"
            THEN raised = "none" /\ result = ErrorResult(r.msg)
            ELSE raised = r.exc

\* the kubectl tool was called with a str
TextCall == tool = "kubectl" /\ input.args.isStr

\* C12: a sequence input reaches validation unchanged; a text that is not
\* JSON, or is JSON but no array, is rejected with InvalidInput, and nothing
\* else is; every other text the callers send is the JSON encoding of the
\* vector it decodes to, and the invocation then has the outcome the same
\* vector has when sent as a sequence.
C12_Normalizer ==
    /\ ListCall => StateShows(validate_args(V))
    /\ (TextCall /\ input.args.text \in MalformedTexts \cup NonArrayTexts)
       => RejectedWith("InvalidInput")
    /\ (tool = "kubectl" /\ RejectedWith("InvalidInput"))
       => (TextCall /\ input.args.text \in MalformedTexts \cup NonArrayTexts)
    /\ (TextCall /\ input.args.text \notin OddTexts)
       => LET v == json_loads(input.args.text).val IN
          /\ JsonEncode(v) = input.args.text
          /\ StateShows(kubectl_prepare(KubectlInput(ListArg(v))))

\* a JSON text whose vector is rejected for a line feed that the text holds
\* as an escape sequence
C12_Witness ==
    /\ TextCall
    /\ input.args.text = JsonEncode(<<Get, <<"a", "\n", "b">>, Pods>>)
    /\ RejectedWith("InvalidCharacters")

\* run_image was called with a name that passes the name validation
ImageStep == tool = "run_image" /\ SpecNameOK(input.name)

\* C13: with a valid name, every image is rejected with FeatureDisabled when
\* ALLOWED_IMAGES is empty; otherwise an image that is not exactly equal to
\* a member of ALLOWED_IMAGES is rejected with ImageNotAllowed, and an image
\* that is a member is rejected with neither.
C13_ValidateImage ==
    ImageStep =>
        /\ ALLOWED_IMAGES = {} => RejectedWith("FeatureDisabled")
        /\ (ALLOWED_IMAGES # {} /\ input.image \notin ALLOWED_IMAGES)
           => RejectedWith("ImageNotAllowed")
        /\ input.image \in ALLOWED_IMAGES
           => /\ ~RejectedWith("FeatureDisabled")
              /\ ~RejectedWith("ImageNotAllowed")

\* an image that extends an allowed image by a tag, rejected; the allowed
\* image is a proper prefix of it
C13_Witness ==
    /\ ImageStep
    /\ Busybox \in ALLOWED_IMAGES
    /\ input.image = Busybox \o <<":", "1">>
    /\ RejectedWith("ImageNotAllowed")

\* the canonical names: lowercase letters, digits and hyphens, 1 to 253
\* characters, starting with a lowercase letter or a digit
CanonicalChars == Lower \cup Digits \cup {"-"}
CanonicalName(name) ==
    /\ Len(name) \in 1..253
    /\ name[1] \in Lower \cup Digits
    /\ \A i \in 1..Len(name) : name[i] \in CanonicalChars

C15_EmptyAllowlistDisables ==
    (tool = "run_image" /\ ALLOWED_IMAGES = {}) =>
        /\ procs = <<>>
        /\ pc = "done"
        /\ SpecNameOK(input.name) => RejectedWith("FeatureDisabled")

\* run_image disabled for a request that names an image, a namespace and a
\* command
C15_Witness ==
    /\ tool = "run_image"
    /\ ALLOWED_IMAGES = {}
    /\ input.image = Busybox
    /\ input.namespace = <<"n", "s">>
    /\ input.command.list = <<Sh>>
    /\ ~input.rm
    /\ RejectedWith("FeatureDisabled")

\* the command of the run_image call is c once normalized: not given, the
\* empty text, the sequence c, or the JSON text of c
SentCommand(c) ==
    /\ tool = "run_image"
    /\ \/ input.command.isNone /\ c = <<>>
       \/ ~input.command.isNone /\ ~input.command.isStr /\ input.command.list = c
       \/ input.command.isStr /\ input.command.text = <<>> /\ c = <<>>
       \/ input.command.isStr /\ input.command.text = JsonEncode(c)

NamespaceGiven == input.namespace # None /\ input.namespace # <<>>

\* the vector of section 4.5 for the call's fields and the command c
RunVector(c) ==
    <<Run, input.name, ImageEq \o input.image, RestartNever>>
    \o (IF NamespaceGiven THEN <<DashN, input.namespace>> ELSE <<>>)
    \o (IF input.rm THEN <<DashRm, DashI>> ELSE <<>>)
    \o (IF c # <<>> THEN <<DashDash>> \o c ELSE <<>>)

\* C16: the process run_image spawns is started with "kubectl" followed by
\* run, name, --image=image, --restart=Never, then -n namespace iff a
\* non-empty namespace was given, then --rm -i iff rm, then -- and the
\* command tokens in order iff the normalized command is non-empty; the
\* command tokens are the tail of the vector and -- stands right before them.
C16_VectorAssembly ==
    (tool = "run_image" /\ procs # <<>>) =>
        \E c \in Commands :
            LET argv == procs[1].argv
                n    == Len(argv) - Len(c)
            IN  /\ SentCommand(c)
                /\ argv = <<Kubectl>> \o RunVector(c)
                /\ c # <<>> =>
                      /\ argv[n] = DashDash
                      /\ SubSeq(argv, n + 1, Len(argv)) = c
                      /\ \A i \in 1..(n - 1) : argv[i] # DashDash
                /\ c = <<>> => \A i \in 1..Len(argv) : argv[i] # DashDash

\* a process started with a namespace, without --rm -i, and with a command
\* of two tokens sent as JSON text
C16_Witness ==
    /\ tool = "run_image"
    /\ input.command.isStr
    /\ procs # <<>>
    /\ procs[1].argv = <<Kubectl, Run, <<"p", "1">>, ImageEq \o Busybox,
                         RestartNever, DashN, <<"n", "s">>, DashDash, Sh, Exec>>

\* C17: in a run_image call whose name and image pass, with the normalized
\* command c: if the given namespace or a token of c holds a reserved
\* metacharacter the call is rejected with InvalidCharacters and no process
\* is spawned; otherwise the call is accepted, also when the namespace or a
\* command token equals a dangerous flag name or a subcommand that is not
\* allowed, and the vector holds the namespace right after -n and the
\* command tokens after --.
C17_ValuesCheckedForMetacharsOnly ==
    \A c \in Commands :
        ( /\ SentCommand(c)
          /\ SpecNameOK(input.name)
          /\ input.image \in ALLOWED_IMAGES )
        => IF \/ NamespaceGiven /\ HasReserved(input.namespace)
              \/ \E k \in 1..Len(c) : HasReserved(c[k])
           THEN RejectedWith("InvalidCharacters")
           ELSE AcceptedAs(RunVector(c))

\* C18: the kubectl tool starts its process with <<"kubectl">> \o vector,
\* one argument per token; when the process exits the result has exactly
\* the fields success, stdout, stderr and return_code, with success =
\* (return_code = 0) and the three others as the process gave them, also
\* for a non-zero exit; when the process cannot be started the result is
\* success = FALSE with the error message of the failure, and no process
\* exists.
C18_ResultMapping ==
    tool = "kubectl" =>
        /\ \A i \in 1..Len(procs) : procs[i].argv = <<Kubectl>> \o kubectl_args
        /\ (pc = "done" /\ procs # <<>> /\ procs[1].status = "exited") =>
              LET o == procs[1].exit[1] IN
              /\ result.keys = {"success", "stdout", "stderr", "return_code"}
              /\ result.success = (o.rc = 0)
              /\ result.return_code = o.rc
              /\ result.stdout = o.out
              /\ result.stderr = o.err
        /\ (pc = "done" /\ kubectl_args # <<>> /\ procs = <<>>) =>
              /\ raised = "none"
              /\ {"success", "error"} \subseteq result.keys
              /\ ~result.success
              /\ result.error = MsgSpawn

\* a kubectl process that exited with a non-zero code after writing to both
\* streams
C18_Witness ==
    /\ tool = "kubectl"
    /\ pc = "done"
    /\ procs # <<>>
    /\ procs[1].status = "exited"
    /\ ~result.success
    /\ result.return_code = 1
    /\ result.stdout = "out"
    /\ result.stderr = "err"

\* the invocation has returned after its child was killed for the timeout
TimedOutReturn ==
    /\ pc = "done"
    /\ raised = "none"
    /\ procs # <<>>
    /\ procs[Len(procs)].status = "killed"
    /\ ~result.success
    /\ "error" \in result.keys
    /\ Category(result.error) = "Timeout"

\* the invocation has returned the result of a child that exited in time
ExitedReturn ==
    /\ pc = "done"
    /\ raised = "none"
    /\ procs # <<>>
    /\ procs[Len(procs)].status = "exited"

\* C19: an invocation of either tool that waits on its child eventually
\* returns: with the child's result when the child exited within TIMEOUT,
\* and otherwise with success = FALSE and an error saying that the command
\* timed out.  No invocation waits forever.
C19_TimeoutLiveness ==
    /\ (pc = "wait") ~> (ExitedReturn \/ TimedOutReturn)
    /\ []( (pc = "done" /\ procs # <<>> /\ procs[Len(procs)].status # "exited")
           => TimedOutReturn )

\* a run_image invocation that returned the timeout outcome
C19_Witness ==
    /\ tool = "run_image"
    /\ TimedOutReturn
    /\ result.error = MsgTimedOut
    /\ result.keys = {"success", "error", "stdout", "stderr"}

\* C20: whenever an invocation has returned, no process it spawned is still
\* running; a result that reports the timeout is returned only after the
\* child was killed; and the next invocation starts with no process left.
C20_NoLeakedChild ==
    /\ pc = "done" => \A i \in 1..Len(procs) : procs[i].status # "running"
    /\ (pc = "done" /\ Category(result.error) = "Timeout")
       => (procs # <<>> /\ \A i \in 1..Len(procs) : procs[i].status = "killed")
    /\ pc = "idle" => procs = <<>>
    /\ \A i \in 1..Len(procs) : procs[i].status = "running" => pc = "wait"

\* a kubectl invocation that returned the timeout outcome, its child killed
C20_Witness ==
    /\ tool = "kubectl"
    /\ pc = "done"
    /\ Len(procs) = 1
    /\ procs[1].status = "killed"
    /\ procs[1].argv = <<Kubectl, Get, Pods>>
    /\ result = ErrorResultWithStreams(MsgTimedOut)

\* C22: no step of the gateway -- a kubectl, run_image or get_config
\* invocation, accepted or rejected, the exit, the timeout or the failed
\* start of a child, the return to the caller, the caller's edit of a
\* returned snapshot -- changes ALLOWED_COMMANDS, DANGEROUS_FLAGS,
\* ALLOWED_IMAGES or TIMEOUT.
C22_PolicyReadOnly == [][policy' = policy]_vars

\* a caller has emptied the image list of a snapshot; the images are still
\* allowed
C22_Witness ==
    /\ tool = "get_config"
    /\ pc = "done"
    /\ snapshot.allowed_images = <<>>
    /\ snapshot.run_image_enabled
    /\ ALLOWED_IMAGES = {Busybox, Nginx}

\* a before b in the order of sorted(): by the first character that
\* differs, a proper prefix first
RECURSIVE LexLess(_, _)
LexLess(a, b) ==
    IF b = <<>> THEN FALSE
    ELSE IF a = <<>> THEN TRUE
    ELSE IF Head(a) = Head(b) THEN LexLess(Tail(a), Tail(b))
    ELSE ord(Head(a)) < ord(Head(b))

\* lst is the sorted list of the elements of S
SortedListOf(lst, S) ==
    /\ Range(lst) = S
    /\ Len(lst) = Cardinality(S)
    /\ \A i \in 1..(Len(lst) - 1) : LexLess(lst[i], lst[i + 1])

\* C23: the dictionary a get_config call returns holds the sorted lists of
\* ALLOWED_COMMANDS, DANGEROUS_FLAGS and ALLOWED_IMAGES, TIMEOUT and
\* run_image_enabled = (ALLOWED_IMAGES # {}); and a caller's edit of a
\* returned list changes that list and no module global, so that every later
\* snapshot and validation is what it would have been.
C23_Snapshot ==
    [][ /\ (pc = "idle" /\ tool' = "get_config") =>
              /\ pc' = "done"
              /\ SortedListOf(snapshot'.allowed_commands, ALLOWED_COMMANDS)
              /\ SortedListOf(snapshot'.dangerous_flags, DANGEROUS_FLAGS)
              /\ SortedListOf(snapshot'.allowed_images, ALLOWED_IMAGES)
              /\ snapshot'.timeout_seconds = TIMEOUT
              /\ snapshot'.run_image_enabled = (ALLOWED_IMAGES # {})
              /\ policy' = policy
        /\ (tool = "get_config" /\ pc = "done" /\ pc' = "done") =>
              /\ snapshot' # snapshot
              /\ policy' = policy
      ]_vars

\* a caller has appended a subcommand to the list of a snapshot; the
\* subcommand is not allowed
C23_Witness ==
    /\ tool = "get_config"
    /\ pc = "done"
    /\ snapshot.allowed_commands = <<Delete, Get, Exec>>
    /\ ALLOWED_COMMANDS = {Get, Delete}

\* the token fails the flag check or the metacharacter check of section 4.3
FailsTokenCheck(tok) == IsDangerousToken(tok) \/ HasReserved(tok)

\* the reason of the first failing check, in the order: empty input, empty
\* after the tool name is dropped, subcommand allowlist, then the tokens left
\* to right, the flag check before the metacharacter check on each token
FirstFailingCheck(v) ==
    LET w == DropToolName(v)
        j == FirstIndex(w, FailsTokenCheck)
    IN  IF v = <<>> \/ w = <<>> THEN "EmptyCommand"
        ELSE IF w[1] \notin ALLOWED_COMMANDS THEN "CommandNotAllowed"
        ELSE IF j = 0 THEN "none"
        ELSE IF IsDangerousToken(w[j]) THEN "FlagNotPermitted"
        ELSE "InvalidCharacters"

\* C25: a vector is rejected with the reason of its first failing check, and
\* accepted when no check fails.  So a vector with a subcommand that is not
\* allowed is rejected with CommandNotAllowed whatever else it holds, and a
\* dangerous-flag token that precedes a token with a metacharacter yields
\* FlagNotPermitted.
C25_RejectionPrecedence ==
    ListCall =>
        LET reason == FirstFailingCheck(V) IN
        IF reason = "none" THEN AcceptedAs(DropToolName(V))
        ELSE RejectedWith(reason)

\* the validation of a kubectl call with a sequence has accepted the vector
ListAccepted ==
    /\ ListCall
    /\ raised = "none"
    /\ kubectl_args # <<>>
    /\ ~ValidationRejected

\* C26: under a policy that does not allow "kubectl" as a subcommand, the
\* vector validate_args returns is accepted unchanged when it is validated
\* again, and a vector that starts with "kubectl", "kubectl" is rejected
\* with CommandNotAllowed: only one leading tool name is dropped.
C26_Idempotent ==
    (ListCall /\ Kubectl \notin ALLOWED_COMMANDS) =>
        /\ ListAccepted =>
              /\ validate_args(V) = Return(kubectl_args)
              /\ validate_args(kubectl_args) = Return(kubectl_args)
        /\ (Len(V) >= 2 /\ V[1] = Kubectl /\ V[2] = Kubectl)
           => RejectedWith("CommandNotAllowed")

\* kubectl kubectl get, rejected for the second kubectl
C26_Witness ==
    /\ ListCall
    /\ V = <<Kubectl, Kubectl, Get>>
    /\ RejectedWith("CommandNotAllowed")

ValidationOutcome(sl) ==
    IF sl.raised # "none" THEN <<"raised", sl.raised>>
    ELSE IF /\ sl.pc = "done"
            /\ sl.result.keys = {"success", "error"}
            /\ Category(sl.result.error) \in ValidationCategories
         THEN <<"rejected", sl.result.error>>
    ELSE <<"accepted", sl.kubectl_args>>

\* the outcome the steps before execution give for a call on its own
OutcomeAlone(c) ==
    LET r == IF c.tool = "kubectl" THEN kubectl_prepare(c.input)
             ELSE run_image_prepare(c.input)
    IN  IF r.exc = "none" THEN <<"accepted", r.val>>
        ELSE IF r.exc = "ValueError" THEN <<"rejected", r.msg>>
        ELSE <<"raised", r.exc>>

-----------------------------------------------------------------------------
(* Claims about aws-multi-account                                          *)

\* the refresh threads that are running
RunningThreads == {t \in 1..Len(threads) : is_alive(t)}

\* C27: after any number of calls of setup_aws_profiles, overlapping ones
\* included, at most one background refresh thread is running.
C27_SingleRefreshThread == Cardinality(RunningThreads) <= 1

\* the credentials file one complete refresh writes
FullFile(config, s) ==
    [i \in 1..Len(config.profiles) |->
        [profile |-> config.profiles[i].name, session |-> s]]

\* a refresh thread t ends an attempt in this step
AttemptEnds(t) ==
    /\ t <= Len(threads)
    /\ threads[t].pc = "refresh"
    /\ threads'[t].pc # "refresh"

\* the refresh thread t exists and is at this place of its loop
ThreadAt(t, place) == t <= Len(threads) /\ threads[t].pc = place

\* a refresh has raised: the last thing logged is an exception
RefreshRaised == refresh_log # <<>> /\ refresh_log[2] # "none"

\* C28: the refresh loop survives failures: an attempt that raises leaves
\* the thread running and sleeping for one more interval, attempts keep
\* occurring for as long as the process lives, and an attempt that succeeds
\* rewrites the credentials file.
C28_RefreshLoopSurvives ==
    /\ [][\A t \in ThreadIds :
             /\ (t <= Len(threads) /\ is_alive(t)) =>
                    threads'[t].pc \in {"sleep", "refresh"}
             /\ AttemptEnds(t) => threads'[t].pc = "sleep"
             /\ (AttemptEnds(t) /\ refresh_log' = Logged(t, "none")) =>
                    credentials_file' = FullFile(profiles_config, sts_serial)
         ]_vars
    /\ \A t \in ThreadIds :
          /\ ThreadAt(t, "sleep") ~> ThreadAt(t, "refresh")
          /\ ThreadAt(t, "refresh") ~> ThreadAt(t, "sleep")

\* a thread whose last refresh raised is attempting the refresh again
C28_Witness ==
    \E t \in 1..Len(threads) :
        /\ RefreshRaised
        /\ refresh_log[1] = t
        /\ threads[t].pc = "refresh"

\* C29: a refresh is all-or-nothing: when a profile fails, the refresh
\* raises and the credentials file stays as it was; the file is written
\* only after every profile is processed, so it never holds the credentials
\* of a part of the configured profiles.
C29_AllOrNothing ==
    /\ [](\/ credentials_file = <<>>
          \/ \E s \in Sessions :
                credentials_file = FullFile(profiles_config, s))
    /\ [][/\ credentials_file' # credentials_file =>
                credentials_file' = FullFile(profiles_config, sts_serial)
          /\ (sts_serial' # sts_serial /\ refresh_log'[2] # "none") =>
                credentials_file' = credentials_file
         ]_vars

\* a refresh raised after a complete file was written, and the file is whole
C29_Witness ==
    /\ credentials_file # <<>>
    /\ \E s \in Sessions : credentials_file = FullFile(profiles_config, s)
    /\ RefreshRaised

-----------------------------------------------------------------------------
(* Claims about mariadb                                                    *)

\* C30: the connection pool is created at most once: across any
\* interleaving of concurrent get_db_connection calls, one pool is created
\* between startup and cleanup, and every caller holds a connection of that
\* same pool.
C30_SinglePool ==
    cleanup_pc = "idle" =>
        /\ Len(pools) <= 1
        /\ \A k \in Coroutines :
              db_calls[k].pc = "using" => db_calls[k].pool = db_pool

====
